---- MODULE Spec2Model ----
(***************************************************************************)
(* Verity CRE: the CRE-1 local simulator (cre-simulator.js) -- decision    *)
(* router, asynchronous BFT/OCR3 round (runBFTBackground), job store and   *)
(* status polling -- and the deployed workflow-1 handler (cre-1/main.ts).  *)
(*                                                                         *)
(* The simulator runs on a single-threaded event loop: one action of this  *)
(* model is the code that runs between two suspension points (await).      *)
(***************************************************************************)
EXTENDS Integers, Sequences, FiniteSets, TLC

\* ---------------------------------------------------------------- bounds
\* Number of POST /trigger requests the environment sends.
MaxRequests == 2
\* Largest clock reading (Date.now(), in ms since the first request arrived).
MaxClock == 1
\* How often the outcome of the per-node offline draw may change along the
\* registry within one round (the draws of a round form at most
\* MaxDrawChanges + 1 runs of equal outcomes).
MaxDrawChanges == 2
\* Largest number of fields of a payload handed to deriveReportHash on its own.
MaxFields == 3

\* ------------------------------------------------------- program constants
NODE_COUNT == 21
QUORUM == 13
RISK_AUTO_APPROVE == 30
RISK_AUTO_REJECT == 70
\* The same two thresholds as cre-1/main.ts declares them.
Cre1_RISK_AUTO_APPROVE == 30
Cre1_RISK_AUTO_REJECT == 70
\* Workflow 2: the thresholds of cre-2-simulator.js and of cre-2/main.ts.
SCORE_SAFE == 30
SCORE_FLAG == 70
Cre2_SCORE_SAFE == 30
Cre2_SCORE_FLAG == 70
\* Workflow 3 (cre-3/main.ts).
CATEGORY_CRYPTO == 0
OUTCOME_YES == 1
OUTCOME_NO == 2

Null == [null |-> TRUE]

Reqs == 1..MaxRequests
\* A request id is `cre1-sim-${Date.now()}`: the clock reading names it.
Ids == 0..MaxClock
\* An id no request was given (a poll of an unknown id).
UnknownId == MaxClock + 1

DON_NODES == [i \in 0..(NODE_COUNT - 1) |->
                [id |-> i, operator |-> i,
                 role |-> IF i = 0 THEN "leader" ELSE "follower"]]

Conditions == {"NETWORK_PARTITION", "DEGRADED", "NORMAL"}

\* Variant: the cap tested inclusively (offlineCount <= maxOffline).
MaxOfflineOf_Inclusive(networkCondition) ==
    CASE networkCondition = "NETWORK_PARTITION" -> 12
      [] networkCondition = "DEGRADED"          -> 8
      [] OTHER                                  -> 3

\* Variant: a DEGRADED round allowed nine offline nodes.
MaxOfflineOf_DegradedNine(networkCondition) ==
    CASE networkCondition = "NETWORK_PARTITION" -> 11
      [] networkCondition = "DEGRADED"          -> 9
      [] OTHER                                  -> 2

\* maxOffline of the condition the dice selected.
MaxOfflineOf(networkCondition) ==
    CASE networkCondition = "NETWORK_PARTITION" -> 11
      [] networkCondition = "DEGRADED"          -> 7
      [] OTHER                                  -> 2

\* ---------------------------------------------------------------- payload
\* Creators a request may name: a well-formed address, and a string that is
\* no address (encodeAbiParameters throws on it).
Creators == {"0xC1", "notAnAddress"}

\* payloadObj as onHTTPTrigger builds it: the fields in insertion order.
\* The analysis fields other than the category are the same for every
\* request of the model.
BuildPayload(creator, category) ==
    << <<"action", "1">>, <<"creator", creator>>, <<"deadline", "d">>,
       <<"feeBps", "200">>, <<"category", category>>, <<"question", "q">>,
       <<"resolutionCriteria", "rc">>, <<"dataSources", "ds">>,
       <<"targetValue", "0">>, <<"priceFeedAddress", "0x0">> >>

FieldOf(payloadObj, key) ==
    LET k == CHOOSE j \in 1..Len(payloadObj) : payloadObj[j][1] = key
    IN  payloadObj[k][2]

\* Order of the keys under Array.prototype.sort (UTF-16 code units).
KeyRank(key) ==
    CASE key = "action" -> 1
      [] key = "category" -> 2
      [] key = "creator" -> 3
      [] key = "dataSources" -> 4
      [] key = "deadline" -> 5
      [] key = "feeBps" -> 6
      [] key = "priceFeedAddress" -> 7
      [] key = "question" -> 8
      [] key = "resolutionCriteria" -> 9
      [] key = "targetValue" -> 10
      [] OTHER -> 11

\* Object.keys(payloadObj).sort(): the distinct keys in sorted order (the key
\* at position j has j - 1 keys before it).
SortedKeys(keys) ==
    [j \in 1..Cardinality(keys) |->
        CHOOSE k \in keys :
            Cardinality({y \in keys : KeyRank(y) < KeyRank(k)}) = j - 1]

deriveMockSignature(nodeId, reportHash) ==
    [signer |-> nodeId, over |-> reportHash]

\* encodeAbiParameters / BigInt() inside writeReportOnChain accept the payload.
Encodable(payloadObj) == FieldOf(payloadObj, "creator") = "0xC1"

\* ------------------------------------------------------------------ state
VARIABLES
    now,          \* the last clock reading handed out (Date.now())
    hasKey,       \* PRIVATE_KEY is configured: getClients() returns clients
    reqLeft,      \* trigger requests the environment has still to send
    drawChanges,  \* the run's allowance of draw changes per round
    req,          \* per trigger request: position, requestId, the analysis
                  \* the decision read, the HTTP response; scored: callGroq
                  \* was called
    bftJobs,      \* the job store: requestId -> the job object stored under it
    job,          \* the job objects, named by the request that created them
    task,         \* runBFTBackground's locals, per job object
    rng,          \* the random source of each round: last draw, changes left
    chainCalls,   \* writeReportOnChain invocations, per request
    cre1,         \* workflow 1 as deployed: its latest execution
    probe         \* inputs and results of a function applied on its own

vars == <<now, hasKey, reqLeft, drawChanges, req, bftJobs, job, task, rng,
          chainCalls, cre1, probe>>

NoTask == [pc |-> "none", i |-> 0, offlineCount |-> 0, observations |-> <<>>,
           networkCondition |-> "null", payloadObj |-> <<>>, riskScore |-> 0,
           reportHash |-> Null, chainWrite |-> Null]

InitServer(requests, changes) ==
    /\ now = 0
    /\ hasKey \in BOOLEAN
    /\ reqLeft = requests
    /\ drawChanges = changes
    /\ req = [r \in Reqs |-> [pc |-> "idle", id |-> -1, scored |-> FALSE,
                               analysis |-> Null, resp |-> Null]]
    /\ bftJobs = [id \in Ids |-> 0]
    /\ job = [r \in Reqs |-> Null]
    /\ task = [r \in Reqs |-> NoTask]
    /\ rng = [r \in Reqs |-> [last |-> "none", left |-> changes]]
    /\ chainCalls = [r \in Reqs |-> 0]
    /\ cre1 = Null

InitWith(requests, changes) ==
    /\ InitServer(requests, changes)
    /\ probe = Null

\* The server with MaxRequests requests in flight; within a round the offline
\* draw has one outcome throughout.
Init == InitWith(MaxRequests, 0)

\* One request, the draws of its round changing up to MaxDrawChanges times.
InitRound == InitWith(1, MaxDrawChanges)

\* Variant: the condition of the round at its signing step hashed along
\* with the payload.
deriveReportHash_WithCondition(payloadObj) ==
    [sha256 |-> <<payloadObj,
                  {task[r].networkCondition : r \in {q \in Reqs : task[q].pc = "sign"}}>>]

\* Variant: the payload serialised in insertion order (no key list).
deriveReportHash_InsertionOrder(payloadObj) == [sha256 |-> payloadObj]

\* JSON.stringify(payloadObj, sortedKeys): the listed properties, in the
\* order of the list.  sha256 is modelled as injective on canonical texts.
deriveReportHash(payloadObj) ==
    LET keys == SortedKeys({payloadObj[j][1] : j \in 1..Len(payloadObj)})
    IN  [sha256 |-> [j \in 1..Len(keys) |-> <<keys[j], FieldOf(payloadObj, keys[j])>>]]

\* ------------------------------------------------------------ POST /trigger
\* The request is received: requestId = `cre1-sim-${Date.now()}`.  Requests
\* are numbered in the order of their arrival; the clock never runs backwards.
Arrive(r) ==
    /\ reqLeft > 0
    /\ req[r].pc = "idle"
    /\ \A q \in Reqs : q < r => req[q].pc # "idle"
    /\ \E t \in (IF r = 1 THEN {0} ELSE now..MaxClock) :
          /\ now' = t
          /\ req' = [req EXCEPT ![r].pc = "arrived", ![r].id = t]
    /\ reqLeft' = reqLeft - 1
    /\ UNCHANGED <<hasKey, drawChanges, bftJobs, job, task, rng, chainCalls, cre1, probe>>

\* Request bodies: the fields onHTTPTrigger validates and the test override.
\* A field holds "absent" when the body lacks it (or holds a falsy value).
InputTypes == {"absent", "manual", "social_post", "other"}
Body(creator, inputType, question, tweetText, forceBftFail) ==
    [creator |-> creator, inputType |-> inputType, question |-> question,
     tweetText |-> tweetText, forceBftFail |-> forceBftFail]
Inputs ==
    {Body(c, "manual", TRUE, FALSE, f) : c \in Creators, f \in BOOLEAN}
    \cup {Body(c, "social_post", FALSE, TRUE, f) : c \in Creators, f \in BOOLEAN}
    \cup {Body("absent", "manual", TRUE, FALSE, FALSE),
          Body("0xC1", "absent", TRUE, TRUE, FALSE),
          Body("0xC1", "other", TRUE, TRUE, FALSE),
          Body("0xC1", "manual", FALSE, TRUE, FALSE),
          Body("0xC1", "social_post", TRUE, FALSE, FALSE)}

\* Variant: the content field of the inputType not required.
ValidInput_ContentUnchecked(input) ==
    /\ input.creator # "absent"
    /\ input.inputType \in {"manual", "social_post"}

\* onHTTPTrigger's validation passes (no Error is thrown before callGroq).
ValidInput(input) ==
    /\ input.creator # "absent"
    /\ input.inputType # "absent"
    /\ \/ input.inputType = "manual" /\ input.question
       \/ input.inputType = "social_post" /\ input.tweetText

\* Variant: an unresolvable analysis turned away only above the approve
\* threshold.
Unresolvable_OnlyIfRisky(analysis) ==
    ~analysis.resolvable /\ analysis.riskScore > RISK_AUTO_APPROVE

\* The first decision test of both handlers: !analysis.resolvable.
Unresolvable(analysis) == ~analysis.resolvable

\* Variant: the thresholds made exclusive on the low side.
Gt_Inclusive(a, b) == a >= b

\* The comparison of both decision tests: riskScore > threshold.
Gt(a, b) == a > b

\* The handler of request r ends with this response, after callGroq returned;
\* analysis is what its decision read (Null when it answered before reading
\* any).
Respond(r, analysis, response) ==
    req' = [req EXCEPT ![r].pc = "done", ![r].scored = TRUE,
                       ![r].analysis = analysis, ![r].resp = response]

\* The catch of the POST /trigger handler: HTTP 400 with the error.
Error400 == [code |-> 400, status |-> "error"]

\* The validation of onHTTPTrigger throws: the handler ends before callGroq.
RejectInput(r) ==
    req' = [req EXCEPT ![r].pc = "done", ![r].resp = Error400]

\* analysis.category of the model's requests.
Categories == {"EVENT"}

\* Variant: the record as it would be had creation waited for Phase 1.
NewJob_AfterPhase1(networkCondition, startTime) ==
    [status |-> "running", phase |-> "signing",
     nodes |-> [i \in 1..NODE_COUNT |->
                  [index |-> i - 1, operator |-> i - 1, status |-> "ok",
                   reason |-> "undefined"]],
     respondedSoFar |-> NODE_COUNT, offlineSoFar |-> 0,
     totalNodes |-> NODE_COUNT, quorumRequired |-> QUORUM,
     networkCondition |-> networkCondition, reportHash |-> Null,
     result |-> Null, startTime |-> startTime]

\* Variant: the record as registered, the condition sampled only after the
\* first timer.
NewJob_ConditionUnset(networkCondition, startTime) ==
    [status |-> "running", phase |-> "observation", nodes |-> <<>>,
     respondedSoFar |-> 0, offlineSoFar |-> 0,
     totalNodes |-> NODE_COUNT, quorumRequired |-> QUORUM,
     networkCondition |-> "null", reportHash |-> Null,
     result |-> Null, startTime |-> startTime]

\* The job record onHTTPTrigger registers, after the synchronous start of
\* runBFTBackground (up to its first await) has set the sampled condition.
NewJob(networkCondition, startTime) ==
    [status |-> "running", phase |-> "observation", nodes |-> <<>>,
     respondedSoFar |-> 0, offlineSoFar |-> 0,
     totalNodes |-> NODE_COUNT, quorumRequired |-> QUORUM,
     networkCondition |-> networkCondition, reportHash |-> Null,
     result |-> Null, startTime |-> startTime]

\* The result writeReportOnChain returns without a PRIVATE_KEY.
MockWrite == [txHash |-> "mockTxHash", onChain |-> FALSE, chainError |-> "undefined"]
\* walletClient.writeContract resolved / rejected.
ChainWrite(ok) ==
    IF ok THEN [txHash |-> "txHash", onChain |-> TRUE, chainError |-> "undefined"]
    ELSE [txHash |-> "mockTxHash", onChain |-> FALSE, chainError |-> "shortMessage"]

\* The response of the auto-approve path.
Created(riskScore, write) ==
    [code |-> 200, status |-> "created", riskScore |-> riskScore,
     txHash |-> write.txHash, onChain |-> write.onChain,
     chainError |-> write.chainError,
     basescan |-> IF write.onChain THEN write.txHash ELSE "null"]

\* Variant: the record never stored.
StoreSet_Dropped(store, jobId, r) == store

\* bftJobs.set(jobId, record): the store with the record of r under jobId.
StoreSet(store, jobId, r) == [store EXCEPT ![jobId] = r]

onHTTPTrigger(r, input, resolvable, riskScore, category, networkCondition) ==
    /\ req[r].pc = "arrived"
    /\ UNCHANGED <<now, hasKey, reqLeft, drawChanges, rng, cre1>>
    /\ LET analysis == [resolvable |-> resolvable, riskScore |-> riskScore] IN
       IF ~ValidInput(input)
       THEN /\ RejectInput(r)
            /\ UNCHANGED <<bftJobs, job, task, chainCalls>>
       ELSE IF input.forceBftFail
       THEN /\ Respond(r, Null,
                       [code |-> 200, status |-> "rejected", riskScore |-> 50,
                           reason |-> "forced"])
            /\ UNCHANGED <<bftJobs, job, task, chainCalls>>
       ELSE IF Unresolvable(analysis)
       THEN /\ Respond(r, analysis,
                       [code |-> 200, status |-> "rejected",
                        riskScore |-> riskScore, reason |-> "Not resolvable"])
            /\ UNCHANGED <<bftJobs, job, task, chainCalls>>
       ELSE IF Gt(riskScore, RISK_AUTO_REJECT)
       THEN /\ Respond(r, analysis,
                       [code |-> 200, status |-> "rejected",
                        riskScore |-> riskScore, reason |-> "Auto-rejected"])
            /\ UNCHANGED <<bftJobs, job, task, chainCalls>>
       ELSE IF Gt(riskScore, RISK_AUTO_APPROVE)
       THEN \* MEDIUM: register the job, start runBFTBackground, answer pending
            /\ bftJobs' = StoreSet(bftJobs, req[r].id, r)
            /\ job' = [job EXCEPT ![r] = NewJob(networkCondition, now)]
            /\ task' = [task EXCEPT ![r] =
                          [NoTask EXCEPT !.pc = "node",
                                         !.networkCondition = networkCondition,
                                         !.payloadObj = BuildPayload(input.creator, category),
                                         !.riskScore = riskScore]]
            /\ Respond(r, analysis,
                       [code |-> 200, status |-> "pending",
                        requestId |-> req[r].id, riskScore |-> riskScore])
            /\ UNCHANGED chainCalls
       ELSE \* LOW: simulateDirectWrite -> writeReportOnChain
            /\ chainCalls' = [chainCalls EXCEPT ![r] = @ + 1]
            /\ UNCHANGED <<bftJobs, job, task>>
            /\ IF ~hasKey
               THEN Respond(r, analysis, Created(riskScore, MockWrite))
               ELSE IF ~Encodable(BuildPayload(input.creator, category))
               THEN Respond(r, analysis, Error400)
               ELSE req' = [req EXCEPT ![r].pc = "writing", ![r].scored = TRUE,
                                       ![r].analysis = analysis]

\* walletClient.writeContract of the direct write settles; the response goes out.
DirectWriteReturn(r) ==
    /\ req[r].pc = "writing"
    /\ \E ok \in BOOLEAN :
          Respond(r, req[r].analysis,
                  Created(req[r].analysis.riskScore, ChainWrite(ok)))
    /\ UNCHANGED <<now, hasKey, reqLeft, drawChanges, bftJobs, job, task, rng,
                   chainCalls, cre1, probe>>

\* --------------------------------------------------------- runBFTBackground
\* Variant: the entries numbered from one.
NodeOutcome_OneBased(i, goOffline, networkCondition) ==
    [index |-> i + 1, operator |-> DON_NODES[i].operator,
     status |-> IF goOffline THEN "offline" ELSE "ok",
     reason |-> IF ~goOffline THEN "undefined"
                ELSE IF networkCondition = "NETWORK_PARTITION"
                THEN "NETWORK_PARTITION" ELSE "TIMEOUT"]

\* Variant: every offline entry reported as a timeout.
NodeOutcome_AlwaysTimeout(i, goOffline, networkCondition) ==
    IF goOffline
    THEN [index |-> i, operator |-> DON_NODES[i].operator, status |-> "offline",
          reason |-> "TIMEOUT"]
    ELSE [index |-> i, operator |-> DON_NODES[i].operator, status |-> "ok",
          reason |-> "undefined"]

\* The NodeOutcome pushed for node i.
NodeOutcome(i, goOffline, networkCondition) ==
    IF goOffline
    THEN [index |-> i, operator |-> DON_NODES[i].operator, status |-> "offline",
          reason |-> IF networkCondition = "NETWORK_PARTITION"
                     THEN "NETWORK_PARTITION" ELSE "TIMEOUT"]
    ELSE [index |-> i, operator |-> DON_NODES[i].operator, status |-> "ok",
          reason |-> "undefined"]

\* job.result of a round that missed quorum.
QuorumFailedResult(t, respondedCount, offlineCount) ==
    [status |-> "rejected", riskScore |-> t.riskScore,
     reasonResponded |-> respondedCount, reasonTotal |-> NODE_COUNT,
     reasonQuorum |-> QUORUM,
     totalNodes |-> NODE_COUNT, respondedNodes |-> respondedCount,
     offlineNodes |-> offlineCount, quorumRequired |-> QUORUM,
     quorumReached |-> FALSE, networkCondition |-> t.networkCondition]

\* Variant: only as many nodes sign as the quorum needs.
Signatures_QuorumOnly(observations, reportHash) ==
    [k \in 1..(IF Len(observations) < QUORUM THEN Len(observations) ELSE QUORUM) |->
        [nodeIndex |-> observations[k],
         operator |-> DON_NODES[observations[k]].operator,
         sig |-> deriveMockSignature(DON_NODES[observations[k]].id, reportHash)]]

\* observations.map(obs => ({ nodeIndex, operator, sig })): a function of the
\* observations and the hash, computed where the result uses it.
Signatures(observations, reportHash) ==
    [k \in 1..Len(observations) |->
        [nodeIndex |-> observations[k],
         operator |-> DON_NODES[observations[k]].operator,
         sig |-> deriveMockSignature(DON_NODES[observations[k]].id, reportHash)]]

\* Variant: the last QUORUM signatures taken.
ThresholdSigs_Last(signatures) ==
    SubSeq(signatures, Len(signatures) - QUORUM + 1, Len(signatures))

\* signatures.slice(0, QUORUM)
ThresholdSigs(signatures) == SubSeq(signatures, 1, QUORUM)

\* thresholdSigs.slice(0, 5).map(...): the five entries shown, sig cut short.
DisplaySigs(thresholdSigs) ==
    [k \in 1..(IF Len(thresholdSigs) < 5 THEN Len(thresholdSigs) ELSE 5) |->
        [node |-> thresholdSigs[k].operator, sig |-> thresholdSigs[k].sig]]

\* job.result of a completed round; write is what writeReportOnChain returned.
CompletedResult(t, write) ==
    [status |-> "created", txHash |-> write.txHash, riskScore |-> t.riskScore,
     totalNodes |-> NODE_COUNT, respondedNodes |-> Len(t.observations),
     offlineNodes |-> t.offlineCount,
     signingNodes |-> Len(Signatures(t.observations, t.reportHash)),
     quorumRequired |-> QUORUM, quorumReached |-> TRUE,
     networkCondition |-> t.networkCondition, reportHash |-> t.reportHash,
     thresholdSigs |->
        DisplaySigs(ThresholdSigs(Signatures(t.observations, t.reportHash))),
     basescan |-> IF write.onChain THEN write.txHash ELSE "null"]

\* runBFTConsensus, the synchronous copy of the round: what it returns for a
\* payload, the condition its dice selected, the goOffline decision of each
\* node (goOffline[i + 1] for node i) and what writeReportOnChain returned.
runBFTConsensus(payloadObj, networkCondition, goOffline, write) ==
    LET Responded(i) == ~goOffline[i + 1]
        observations == SelectSeq([k \in 1..NODE_COUNT |-> k - 1], Responded)
        offlineCount == Cardinality({k \in 1..NODE_COUNT : goOffline[k]})
        respondedCount == Len(observations)
    IN  IF respondedCount < QUORUM
        THEN [bftFailed |-> TRUE,
              reasonResponded |-> respondedCount, reasonTotal |-> NODE_COUNT,
              reasonQuorum |-> QUORUM,
              consensus |->
                 [totalNodes |-> NODE_COUNT, respondedNodes |-> respondedCount,
                  offlineNodes |-> offlineCount, quorumRequired |-> QUORUM,
                  quorumReached |-> FALSE, networkCondition |-> networkCondition]]
        ELSE LET reportHash == deriveReportHash(payloadObj)
                 signatures ==
                    [k \in 1..Len(observations) |->
                        [nodeIndex |-> observations[k],
                         operator |-> DON_NODES[observations[k]].operator,
                         sig |-> deriveMockSignature(DON_NODES[observations[k]].id,
                                                     reportHash)]]
                 thresholdSigs == SubSeq(signatures, 1, QUORUM)
             IN  [txHash |-> write.txHash, onChain |-> write.onChain,
                  chainError |-> write.chainError,
                  consensus |->
                     [totalNodes |-> NODE_COUNT, respondedNodes |-> respondedCount,
                      offlineNodes |-> offlineCount,
                      signingNodes |-> Len(signatures),
                      quorumRequired |-> QUORUM, quorumReached |-> TRUE,
                      networkCondition |-> networkCondition,
                      reportHash |-> reportHash,
                      thresholdSigs |->
                         [k \in 1..5 |-> [node |-> thresholdSigs[k].operator,
                                          sig |-> thresholdSigs[k].sig]],
                      basescan |-> IF write.onChain THEN write.txHash ELSE "null"]]

\* job.result written by the catch handler onHTTPTrigger attached.
InternalErrorResult == [status |-> "rejected", reason |-> "BFT internal error"]

\* The offline draw of a step: Math.random() < offlineChance is evaluated
\* only while offlineCount < maxOffline.
DrawAllowed(r, d) ==
    \/ rng[r].last = "none"
    \/ rng[r].last = d
    \/ rng[r].left > 0

AfterDraw(r, d) ==
    [last |-> d,
     left |-> IF rng[r].last \in {"none", d} THEN rng[r].left ELSE rng[r].left - 1]

\* Variant: every recorded node counted as responded.
Counted_AllResponded(jobRecord, nodes, observations, offlineCount) ==
    [jobRecord EXCEPT !.nodes = nodes,
                      !.respondedSoFar = Len(nodes),
                      !.offlineSoFar = offlineCount]

\* Variant: the push published without the update of offlineSoFar.
Counted_StaleOffline(jobRecord, nodes, observations, offlineCount) ==
    [jobRecord EXCEPT !.nodes = nodes,
                      !.respondedSoFar = Len(observations)]

\* Variant: totalNodes recounted as the nodes still able to respond.
Counted_TotalRecounted(jobRecord, nodes, observations, offlineCount) ==
    [jobRecord EXCEPT !.nodes = nodes,
                      !.respondedSoFar = Len(observations),
                      !.offlineSoFar = offlineCount,
                      !.totalNodes = NODE_COUNT - offlineCount]

\* The job record after the push and the two counter updates of an iteration.
Counted(jobRecord, nodes, observations, offlineCount) ==
    [jobRecord EXCEPT !.nodes = nodes,
                      !.respondedSoFar = Len(observations),
                      !.offlineSoFar = offlineCount]

\* Variant: the quorum test off by one.
QuorumMissed_OffByOne(respondedCount) == respondedCount < QUORUM - 1

\* Variant: the test against the fault budget instead of the quorum.
QuorumMissed_FaultBudget(respondedCount) == respondedCount < NODE_COUNT - QUORUM

\* The quorum test that ends Phase 1.
QuorumMissed(respondedCount) == respondedCount < QUORUM

\* One iteration of the Phase 1 loop, from the timer firing to the next await;
\* the last iteration runs on into the quorum check.
NodeStep(r) ==
    /\ task[r].pc = "node"
    /\ UNCHANGED <<now, hasKey, reqLeft, drawChanges, req, bftJobs, chainCalls, cre1, probe>>
    /\ LET t == task[r]
           i == t.i
           capped == ~(t.offlineCount < MaxOfflineOf(t.networkCondition))
       IN  \E d \in {"offline", "ok"} :
             /\ IF capped
                THEN d = "ok" /\ UNCHANGED rng
                ELSE DrawAllowed(r, d) /\ rng' = [rng EXCEPT ![r] = AfterDraw(r, d)]
             /\ LET goOffline == d = "offline"
                    offlineCount == IF goOffline THEN t.offlineCount + 1
                                    ELSE t.offlineCount
                    observations == IF goOffline THEN t.observations
                                    ELSE Append(t.observations, i)
                    nodes == Append(job[r].nodes,
                                    NodeOutcome(i, goOffline, t.networkCondition))
                    counted == Counted(job[r], nodes, observations, offlineCount)
                    t1 == [t EXCEPT !.i = i + 1, !.offlineCount = offlineCount,
                                    !.observations = observations]
                IN  IF i + 1 < NODE_COUNT
                    THEN /\ job' = [job EXCEPT ![r] = counted]
                         /\ task' = [task EXCEPT ![r] = t1]
                    ELSE IF QuorumMissed(Len(observations))
                    THEN /\ job' = [job EXCEPT ![r] =
                                [counted EXCEPT !.status = "failed",
                                   !.result = QuorumFailedResult(t, Len(observations),
                                                                 offlineCount)]]
                         /\ task' = [task EXCEPT ![r] = [t1 EXCEPT !.pc = "done"]]
                    ELSE /\ job' = [job EXCEPT ![r] = [counted EXCEPT !.phase = "signing"]]
                         /\ task' = [task EXCEPT ![r] = [t1 EXCEPT !.pc = "sign"]]

\* Phase 2+3 after the 600 ms timer: hash, signatures, then phase transmitting.
SignStep(r) ==
    /\ task[r].pc = "sign"
    /\ UNCHANGED <<now, hasKey, reqLeft, drawChanges, req, bftJobs, rng, chainCalls,
                   cre1, probe>>
    /\ LET t == task[r]
           reportHash == deriveReportHash(t.payloadObj)
       IN  /\ job' = [job EXCEPT ![r].reportHash = reportHash,
                                 ![r].phase = "transmitting"]
           /\ task' = [task EXCEPT ![r].reportHash = reportHash,
                                   ![r].pc = "transmit"]

\* Variant: the record's reportHash cleared on completion.
Complete_DropsHash(r, write) ==
    /\ job' = [job EXCEPT ![r].status = "completed",
                          ![r].reportHash = Null,
                          ![r].result = CompletedResult(task[r], write)]
    /\ task' = [task EXCEPT ![r].pc = "done", ![r].chainWrite = write]

\* The tail of runBFTBackground once writeReportOnChain has returned.
Complete(r, write) ==
    /\ job' = [job EXCEPT ![r].status = "completed",
                          ![r].result = CompletedResult(task[r], write)]
    /\ task' = [task EXCEPT ![r].pc = "done", ![r].chainWrite = write]

\* Variant: the rejection of the background task left unhandled.
CatchHandler_Unhandled(r) ==
    /\ job' = job
    /\ task' = [task EXCEPT ![r].pc = "thrown"]

\* Variant: the handler marks every record of the store.
CatchHandler_MarksAll(r) ==
    /\ job' = [q \in Reqs |->
                 IF job[q] = Null THEN Null
                 ELSE [job[q] EXCEPT !.status = "failed",
                                     !.result = InternalErrorResult]]
    /\ task' = [task EXCEPT ![r].pc = "thrown"]

\* The .catch handler of the background task of request r: it marks the job
\* the store holds under the request's id.
CatchHandler(r) ==
    LET stored == bftJobs[req[r].id]
    IN  /\ job' = IF stored = 0 THEN job
                  ELSE [job EXCEPT ![stored].status = "failed",
                                   ![stored].result = InternalErrorResult]
        /\ task' = [task EXCEPT ![r].pc = "thrown"]

\* Phase 4 after the 400 ms timer: writeReportOnChain is called.  Without a
\* key it returns at once; with one it encodes the report (which may throw)
\* and awaits walletClient.writeContract.
TransmitStep(r) ==
    /\ task[r].pc = "transmit"
    /\ chainCalls' = [chainCalls EXCEPT ![r] = @ + 1]
    /\ UNCHANGED <<now, hasKey, reqLeft, drawChanges, req, bftJobs, rng, cre1, probe>>
    /\ IF ~hasKey
       THEN Complete(r, MockWrite)
       ELSE IF ~Encodable(task[r].payloadObj)
       THEN CatchHandler(r)
       ELSE /\ task' = [task EXCEPT ![r].pc = "gateway"]
            /\ UNCHANGED job

\* Variant: a rejected submission sent again.
GatewayReturn_RetryOnError(r) ==
    /\ task[r].pc = "gateway"
    /\ UNCHANGED <<now, hasKey, reqLeft, drawChanges, req, bftJobs, rng, chainCalls,
                   cre1, probe>>
    /\ \E ok \in BOOLEAN :
          IF ok THEN Complete(r, ChainWrite(ok))
          ELSE /\ task' = [task EXCEPT ![r].pc = "transmit"]
               /\ UNCHANGED job

\* walletClient.writeContract settles: resolved (ok) or rejected.
GatewayReturn(r) ==
    /\ task[r].pc = "gateway"
    /\ UNCHANGED <<now, hasKey, reqLeft, drawChanges, req, bftJobs, rng, chainCalls,
                   cre1, probe>>
    /\ \E ok \in BOOLEAN : Complete(r, ChainWrite(ok))

\* ------------------------------------------------- GET /bft-status/:requestId
Snapshot(jobId) ==
    IF jobId \notin Ids \/ bftJobs[jobId] = 0
    THEN [code |-> 404, requestId |-> jobId]
    ELSE LET j == job[bftJobs[jobId]]
         IN  [code |-> 200, requestId |-> jobId, status |-> j.status,
              phase |-> j.phase, nodes |-> j.nodes,
              respondedSoFar |-> j.respondedSoFar, offlineSoFar |-> j.offlineSoFar,
              totalNodes |-> j.totalNodes, quorumRequired |-> j.quorumRequired,
              networkCondition |-> j.networkCondition, reportHash |-> j.reportHash,
              result |-> j.result]

\* Variant: a miss evicts the store.
Poll_EvictsOnMiss(jobId) ==
    /\ Snapshot(jobId).code \in {200, 404}
    /\ IF Snapshot(jobId).code = 404
       THEN bftJobs' = [id \in Ids |-> 0]
       ELSE UNCHANGED bftJobs
    /\ UNCHANGED <<now, hasKey, reqLeft, drawChanges, req, job, task, rng,
                   chainCalls, cre1, probe>>

\* Variant: a record read in a terminal status is removed from the store.
Poll_DeletesTerminal(jobId) ==
    /\ Snapshot(jobId).code \in {200, 404}
    /\ IF Snapshot(jobId).code = 200 /\ Snapshot(jobId).status # "running"
       THEN bftJobs' = [bftJobs EXCEPT ![jobId] = 0]
       ELSE UNCHANGED bftJobs
    /\ UNCHANGED <<now, hasKey, reqLeft, drawChanges, req, job, task, rng,
                   chainCalls, cre1, probe>>

\* The handler answers with Snapshot(jobId) and writes nothing.
Poll(jobId) ==
    /\ Snapshot(jobId).code \in {200, 404}
    /\ UNCHANGED vars

\* --------------------------------------------- cre-1/main.ts: onHTTPTrigger
\* Workflow 1 as deployed: a synchronous handler without a job store.  cre1
\* holds what its execution did: the analysis its decision read, the status
\* it returned ("error" when it threw) and the writeReport calls it made.
\* Variant: a pending market also written to the ledger.
Cre1Ran_WritesOnPending(analysis, status, writeReports) ==
    cre1' = [analysis |-> analysis, status |-> status,
             writeReports |-> IF status = "pending" THEN 1 ELSE writeReports]

Cre1Ran(analysis, status, writeReports) ==
    cre1' = [analysis |-> analysis, status |-> status, writeReports |-> writeReports]

Cre1OnHTTPTrigger(input, geminiOk, resolvable, riskScore, writeOk) ==
    /\ cre1 = Null
    /\ UNCHANGED <<now, hasKey, reqLeft, drawChanges, req, bftJobs, job, task, rng,
                   chainCalls, probe>>
    /\ LET analysis == [resolvable |-> resolvable, riskScore |-> riskScore] IN
       IF ~ValidInput(input) \/ ~geminiOk
       THEN Cre1Ran(Null, "error", 0)
       ELSE IF Unresolvable(analysis)
       THEN Cre1Ran(analysis, "rejected", 0)
       ELSE IF Gt(riskScore, Cre1_RISK_AUTO_REJECT)
       THEN Cre1Ran(analysis, "rejected", 0)
       ELSE IF Gt(riskScore, Cre1_RISK_AUTO_APPROVE)
       THEN Cre1Ran(analysis, "pending", 0)
       ELSE \* submitCreateMarket: writeReport, which throws unless SUCCESS
            Cre1Ran(analysis, IF writeOk THEN "created" ELSE "error", 1)

\* ---------------------------------------------------------- specifications
\* Risk scores of the server's requests: one per disposition.
ServerScores == {RISK_AUTO_APPROVE, 50, RISK_AUTO_REJECT + 1}

Trigger(r) ==
    /\ req[r].pc = "arrived"
    /\ UNCHANGED probe
    /\ \E input \in Inputs, resolvable \in BOOLEAN, riskScore \in ServerScores,
          category \in Categories, networkCondition \in Conditions :
          onHTTPTrigger(r, input, resolvable, riskScore, category, networkCondition)

Next ==
    \/ \E r \in Reqs : Arrive(r)
    \/ \E r \in Reqs : Trigger(r)
    \/ \E r \in Reqs : DirectWriteReturn(r)
    \/ \E r \in Reqs : NodeStep(r)
    \/ \E r \in Reqs : SignStep(r)
    \/ \E r \in Reqs : TransmitStep(r)
    \/ \E r \in Reqs : GatewayReturn(r)
    \/ \E jobId \in Ids \cup {UnknownId} : Poll(jobId)

Spec == Init /\ [][Next]_vars

SpecRound == InitRound /\ [][Next]_vars

\* Two requests in flight, each round with one draw outcome throughout.
SpecPair == InitWith(2, 0) /\ [][Next]_vars

\* One request, the body it was sent kept in probe.
TriggerRecorded(r) ==
    /\ req[r].pc = "arrived"
    /\ \E input \in Inputs, resolvable \in BOOLEAN, riskScore \in ServerScores,
          category \in Categories, networkCondition \in Conditions :
          /\ onHTTPTrigger(r, input, resolvable, riskScore, category, networkCondition)
          /\ probe' = [input |-> input]

NextInput ==
    \/ \E r \in Reqs : Arrive(r)
    \/ \E r \in Reqs : TriggerRecorded(r)
    \/ \E r \in Reqs : DirectWriteReturn(r)
    \/ \E r \in Reqs : NodeStep(r)
    \/ \E r \in Reqs : SignStep(r)
    \/ \E r \in Reqs : TransmitStep(r)
    \/ \E r \in Reqs : GatewayReturn(r)
    \/ \E jobId \in Ids \cup {UnknownId} : Poll(jobId)

SpecInput == InitWith(1, 0) /\ [][NextInput]_vars

\* The step a background task is waiting to take: it is suspended at one
\* await at a time.
RoundStep(r) ==
    NodeStep(r) \/ SignStep(r) \/ TransmitStep(r) \/ GatewayReturn(r)

\* The timers of every round fire and its walletClient.writeContract settles.
Fairness == \A r \in Reqs : WF_vars(RoundStep(r))

\* One request whose round is scheduled fairly; its draws change at most once
\* (k offline nodes then responses, or responses then offline nodes).
FairRound == InitWith(1, 1) /\ [][Next]_vars /\ Fairness

\* The decision routers alone, over every risk score 0..100.  The simulator
\* and the deployed workflow 1 are separate programs: a run exercises either
\* the simulator's handler for one request or one execution of workflow 1.
RouterScores == 0..100

TriggerAnyScore(r) ==
    /\ req[r].pc = "arrived"
    /\ UNCHANGED probe
    /\ \E input \in Inputs, resolvable \in BOOLEAN, riskScore \in RouterScores,
          category \in Categories, networkCondition \in Conditions :
          onHTTPTrigger(r, input, resolvable, riskScore, category, networkCondition)

\* Scores outside the scale: analysis.riskScore is whatever number the model's
\* JSON (or Number(__forceRiskScore)) holds.
MalformedScores == {-1, 101}

TriggerMalformed(r) ==
    /\ req[r].pc = "arrived"
    /\ UNCHANGED probe
    /\ \E input \in Inputs, resolvable \in BOOLEAN, riskScore \in MalformedScores,
          category \in Categories, networkCondition \in Conditions :
          onHTTPTrigger(r, input, resolvable, riskScore, category, networkCondition)

Cre1Trigger ==
    /\ cre1 = Null
    /\ \E input \in Inputs, geminiOk \in BOOLEAN, resolvable \in BOOLEAN,
          riskScore \in RouterScores, writeOk \in BOOLEAN :
          Cre1OnHTTPTrigger(input, geminiOk, resolvable, riskScore, writeOk)

NextRouter ==
    \/ cre1 = Null /\ \E r \in Reqs : Arrive(r)
    \/ \E r \in Reqs : TriggerAnyScore(r)
    \/ \E r \in Reqs : TriggerMalformed(r)
    \/ \E r \in Reqs : DirectWriteReturn(r)
    \/ req[1].pc = "idle" /\ Cre1Trigger

SpecRouter == InitWith(1, 0) /\ [][NextRouter]_vars

\* deriveReportHash on its own: two objects holding the same (field, value)
\* pairs, inserted in any two orders, are hashed.
HashKeys == {"creator", "action", "deadline", "category"}
HashValues == {"1", "2"}

\* The objects of n fields: distinct keys, in insertion order.
PayloadsOf(n) ==
    {p \in [1..n -> HashKeys \X HashValues] :
        \A j \in 1..n, k \in 1..n : j # k => p[j][1] # p[k][1]}

InitHash ==
    /\ InitServer(0, 0)
    /\ \E n \in 1..MaxFields :
          \E a \in PayloadsOf(n), b \in PayloadsOf(n) :
              /\ {a[j] : j \in 1..n} = {b[j] : j \in 1..n}
              /\ probe = [a |-> a, b |-> b, hashA |-> Null, hashB |-> Null]

HashStep ==
    /\ probe # Null /\ probe.hashA = Null
    /\ probe' = [probe EXCEPT !.hashA = deriveReportHash(probe.a),
                              !.hashB = deriveReportHash(probe.b)]
    /\ UNCHANGED <<now, hasKey, reqLeft, drawChanges, req, bftJobs, job, task,
                   rng, chainCalls, cre1>>

SpecHash == InitHash /\ [][HashStep]_vars

\* ------------------------------------------- workflow 2: anomaly detection
\* Variant: the flag threshold of the comment in main.ts (81-100 flags).
onBetPlaced_FlagAbove80(market, analysis) ==
    LET score == analysis.manipulationScore IN
    IF "status" \in DOMAIN market /\ market.status # 0
    THEN [result |-> [action |-> "skipped", reason |-> "market_not_active"],
          reports |-> 0]
    ELSE IF score <= SCORE_SAFE
    THEN [result |-> [action |-> "safe", manipulationScore |-> score],
          reports |-> 0]
    ELSE LET action == IF score > 80 THEN "flag" ELSE "monitor"
         IN  [result |-> [action |-> action, manipulationScore |-> score,
                          txHash |-> "txHash", marketPaused |-> action = "flag"],
              reports |-> 1]

\* cre-2-simulator.js onBetPlaced: the result it returns and the number of
\* simulateManipulationReport calls it made.  A market of the request body
\* may lack a status.
onBetPlaced(market, analysis) ==
    LET score == analysis.manipulationScore IN
    IF "status" \in DOMAIN market /\ market.status # 0
    THEN [result |-> [action |-> "skipped", reason |-> "market_not_active"],
          reports |-> 0]
    ELSE IF score <= SCORE_SAFE
    THEN [result |-> [action |-> "safe", manipulationScore |-> score],
          reports |-> 0]
    ELSE LET action == IF score > SCORE_FLAG THEN "flag" ELSE "monitor"
         IN  [result |-> [action |-> action, manipulationScore |-> score,
                          txHash |-> "txHash", marketPaused |-> action = "flag"],
              reports |-> 1]

\* cre-2/main.ts onBetPlaced for a decoded BetPlaced log: the market is read
\* from the contract (its status is a number); submitManipulationReport
\* throws unless writeReport answers SUCCESS.
Cre2OnBetPlaced(market, analysis, writeOk) ==
    LET score == analysis.manipulationScore IN
    IF market.status # 0
    THEN [result |-> [action |-> "skipped", reason |-> "market_not_active"],
          reports |-> 0]
    ELSE IF score <= Cre2_SCORE_SAFE
    THEN [result |-> [action |-> "safe", manipulationScore |-> score],
          reports |-> 0]
    ELSE LET action == IF score > Cre2_SCORE_FLAG THEN "flag" ELSE "monitor"
         IN  IF writeOk
             THEN [result |-> [action |-> action, manipulationScore |-> score,
                               txHash |-> "txHash"],
                   reports |-> 1]
             ELSE [result |-> [action |-> "error"], reports |-> 1]

\* Manipulation scores the analysis may return, and the markets: Market.status
\* is 0 Active, 1..3 otherwise; the last market has no status field.
ManipulationScores == 0..100
Markets == {[question |-> "q", status |-> s] : s \in 0..3} \cup {[question |-> "q"]}

\* One bet: the market, the analysis of the bet and whether writeReport
\* succeeds; both copies of the workflow handle it.
InitAnomaly ==
    /\ InitServer(0, 0)
    /\ \E market \in Markets, score \in ManipulationScores, writeOk \in BOOLEAN :
          probe = [market |-> market, analysis |-> [manipulationScore |-> score],
                   writeOk |-> writeOk, sim |-> Null, cre2 |-> Null]

BetPlacedSim ==
    /\ probe.sim = Null
    /\ probe' = [probe EXCEPT !.sim = onBetPlaced(probe.market, probe.analysis)]
    /\ UNCHANGED <<now, hasKey, reqLeft, drawChanges, req, bftJobs, job, task,
                   rng, chainCalls, cre1>>

BetPlacedCre2 ==
    /\ probe.cre2 = Null
    /\ "status" \in DOMAIN probe.market
    /\ probe' = [probe EXCEPT !.cre2 = Cre2OnBetPlaced(probe.market, probe.analysis,
                                                       probe.writeOk)]
    /\ UNCHANGED <<now, hasKey, reqLeft, drawChanges, req, bftJobs, job, task,
                   rng, chainCalls, cre1>>

NextAnomaly == BetPlacedSim \/ BetPlacedCre2

SpecAnomaly == InitAnomaly /\ [][NextAnomaly]_vars

\* ------------------------------------------------ workflow 3: resolution
\* A call that threw instead of returning.
Threw == [threw |-> TRUE]

\* Variant: the target has to be exceeded.
resolveCryptoPrice_StrictlyAbove(resolution, config, answer) ==
    LET feedAddress == IF resolution.priceFeedAddress # "zeroAddress"
                       THEN resolution.priceFeedAddress
                       ELSE config.ethUsdPriceFeed
    IN  IF feedAddress = "undefined" \/ feedAddress = "zeroAddress"
        THEN Threw
        ELSE [outcome |-> IF answer > resolution.targetValue
                          THEN OUTCOME_YES ELSE OUTCOME_NO,
              confidence |-> 100]

\* resolveCryptoPrice: answer is the price latestRoundData returned (int256,
\* 8 decimals, as targetValue).
resolveCryptoPrice(resolution, config, answer) ==
    LET feedAddress == IF resolution.priceFeedAddress # "zeroAddress"
                       THEN resolution.priceFeedAddress
                       ELSE config.ethUsdPriceFeed
    IN  IF feedAddress = "undefined" \/ feedAddress = "zeroAddress"
        THEN Threw
        ELSE LET currentPrice == answer
                 targetValue == resolution.targetValue
                 isYes == currentPrice >= targetValue
             IN  [outcome |-> IF isYes THEN OUTCOME_YES ELSE OUTCOME_NO,
                  confidence |-> 100]

\* Variant: the escalation written to the ledger as well (escalateMarket).
onSettlementRequested_WritesEscalation(market, resolution, config, answer, analysis, writeOk) ==
    IF market.status = 2 \/ market.status = 3
    THEN [result |-> [action |-> "skipped", reason |-> "already_finalized"],
          writes |-> 0]
    ELSE LET result == IF market.category = CATEGORY_CRYPTO
                       THEN resolveCryptoPrice(resolution, config, answer)
                       ELSE analysis
         IN  IF "threw" \in DOMAIN result
             THEN [result |-> [action |-> "error"], writes |-> 0]
             ELSE IF result.confidence < config.confidenceThreshold
             THEN [result |-> [action |-> "escalated", outcome |-> result.outcome,
                               confidence |-> result.confidence,
                               threshold |-> config.confidenceThreshold],
                   writes |-> 1]
             ELSE IF writeOk
             THEN [result |-> [action |-> "resolved", outcome |-> result.outcome,
                               confidence |-> result.confidence, txHash |-> "txHash"],
                   writes |-> 1]
             ELSE [result |-> [action |-> "error"], writes |-> 1]

\* onSettlementRequested for a decoded log: what it returns ("error" when it
\* threw) and the submitResolveMarket calls it made.  analysis is what
\* resolveWithAI returned for a market of another category.
onSettlementRequested(market, resolution, config, answer, analysis, writeOk) ==
    IF market.status = 2 \/ market.status = 3
    THEN [result |-> [action |-> "skipped", reason |-> "already_finalized"],
          writes |-> 0]
    ELSE LET result == IF market.category = CATEGORY_CRYPTO
                       THEN resolveCryptoPrice(resolution, config, answer)
                       ELSE analysis
         IN  IF "threw" \in DOMAIN result
             THEN [result |-> [action |-> "error"], writes |-> 0]
             ELSE IF result.confidence < config.confidenceThreshold
             THEN [result |-> [action |-> "escalated", outcome |-> result.outcome,
                               confidence |-> result.confidence,
                               threshold |-> config.confidenceThreshold],
                   writes |-> 0]
             ELSE IF writeOk
             THEN [result |-> [action |-> "resolved", outcome |-> result.outcome,
                               confidence |-> result.confidence, txHash |-> "txHash"],
                   writes |-> 1]
             ELSE [result |-> [action |-> "error"], writes |-> 1]

\* The inputs of one settlement request.  Market.status: 0 Active, 1 Paused,
\* 2 Resolved, 3 Escalated; prices and targets are signed.
SettlementMarkets == [status : 0..3, category : {CATEGORY_CRYPTO, 3}]
Resolutions == [targetValue : -1..1, priceFeedAddress : {"zeroAddress", "0xFeed"}]
Configs == [confidenceThreshold : {90, 101}, ethUsdPriceFeed : {"undefined", "0xEthUsd"}]
Answers == -1..2
AiResolutions == [outcome : {OUTCOME_YES, OUTCOME_NO}, confidence : {89, 90, 100}]
                 \cup {Threw}

InitResolution ==
    /\ InitServer(0, 0)
    /\ \E market \in SettlementMarkets, resolution \in Resolutions,
          config \in Configs, answer \in Answers, analysis \in AiResolutions,
          writeOk \in BOOLEAN :
          probe = [market |-> market, resolution |-> resolution, config |-> config,
                   answer |-> answer, analysis |-> analysis, writeOk |-> writeOk,
                   price |-> Null, out |-> Null]

\* The handler runs; price keeps what resolveCryptoPrice returned to it.
SettlementRequested ==
    /\ probe.out = Null
    /\ probe' = [probe EXCEPT
                   !.out = onSettlementRequested(probe.market, probe.resolution,
                                                 probe.config, probe.answer,
                                                 probe.analysis, probe.writeOk),
                   !.price = IF probe.market.status \notin {2, 3}
                                /\ probe.market.category = CATEGORY_CRYPTO
                             THEN resolveCryptoPrice(probe.resolution, probe.config,
                                                     probe.answer)
                             ELSE Null]
    /\ UNCHANGED <<now, hasKey, reqLeft, drawChanges, req, bftJobs, job, task,
                   rng, chainCalls, cre1>>

SpecResolution == InitResolution /\ [][SettlementRequested]_vars

\* ------------------------------------------------------------- properties
\* The requests that were routed to consensus: each owns a round.
Rounds == {r \in Reqs : job[r] # Null}

\* Phase 1 of the round of r has processed the last node.
Phase1Done(r) == task[r].i = NODE_COUNT

CountStatus(nodes, status) ==
    Cardinality({k \in 1..Len(nodes) : nodes[k].status = status})

\* C1: writeReportOnChain is invoked in a round only after Phase 1 recorded an
\* outcome for all 21 nodes with respondedSoFar >= 13; a round whose Phase 1
\* ends below quorum never invokes it and never enters signing/transmitting.
C1_GatewayOnlyAfterQuorum ==
    \A r \in Rounds :
        /\ chainCalls[r] > 0 =>
              Len(job[r].nodes) = 21 /\ job[r].respondedSoFar >= 13
        /\ job[r].phase \in {"signing", "transmitting"} =>
              Len(job[r].nodes) = 21 /\ job[r].respondedSoFar >= 13
        /\ Phase1Done(r) /\ job[r].respondedSoFar < job[r].quorumRequired =>
              chainCalls[r] = 0 /\ job[r].phase = "observation"

\* A round with offline nodes reached quorum and called writeReportOnChain.
C1_Witness ==
    \E r \in Rounds : chainCalls[r] = 1 /\ job[r].offlineSoFar > 0

\* C2: for every integer score 0..100 of a resolvable analysis, both handlers
\* route score <= 30 to auto-approve (direct write, status created), 30 < score
\* <= 70 to consensus (pending), score > 70 to auto-reject (rejected).  The
\* answer of an approved request whose write threw is the error instead.
C2_RoutingByScore ==
    LET Disposition(score) ==
            IF score <= 30 THEN "created"
            ELSE IF score <= 70 THEN "pending" ELSE "rejected"
    IN
    /\ \A r \in Reqs :
          req[r].analysis # Null /\ req[r].analysis.resolvable =>
            LET score == req[r].analysis.riskScore IN
            /\ (chainCalls[r] = 1) = (score <= 30)
            /\ (job[r] # Null) = (30 < score /\ score <= 70)
            /\ req[r].pc = "done" /\ req[r].resp.code = 200 =>
                  req[r].resp.status = Disposition(score)
            /\ req[r].pc = "done" /\ req[r].resp.code # 200 =>
                  score <= 30 /\ hasKey
    /\ cre1 # Null /\ cre1.analysis # Null /\ cre1.analysis.resolvable =>
          LET score == cre1.analysis.riskScore IN
          /\ (cre1.writeReports = 1) = (score <= 30)
          /\ cre1.status \in {Disposition(score), "error"}
          /\ cre1.status = "error" => score <= 30

\* The simulator answered pending for a score on the upper threshold.
C2_Witness ==
    /\ req[1].pc = "done" /\ req[1].analysis # Null
    /\ req[1].analysis.resolvable /\ req[1].analysis.riskScore = 70
    /\ req[1].resp.status = "pending"

\* C3: if Phase 1 has processed all nodes with respondedSoFar < quorumRequired,
\* the round's status is failed and its reportHash stays null ever after.
C3_BelowQuorumFails ==
    \A r \in Rounds :
        Phase1Done(r) /\ job[r].respondedSoFar < job[r].quorumRequired =>
            job[r].status = "failed" /\ job[r].reportHash = Null

\* A round ended Phase 1 one response short of the quorum.
C3_Witness ==
    \E r \in Rounds :
        /\ Phase1Done(r) /\ job[r].respondedSoFar = QUORUM - 1
        /\ job[r].status = "failed"

\* C4: a round whose Phase 1 ended with respondedSoFar >= quorumRequired is
\* never failed and ends completed with its reportHash set, whatever
\* writeReportOnChain does (success, error, or an exception while it prepares
\* the submission).
C4_QuorumRoundCompletes ==
    \A r \in Rounds :
        Phase1Done(r) /\ job[r].respondedSoFar >= job[r].quorumRequired =>
            /\ job[r].status # "failed"
            /\ task[r].pc \in {"done", "thrown"} =>
                  job[r].status = "completed" /\ job[r].reportHash # Null

\* C5: when the Gateway call of a round that reached quorum errors, the round
\* is completed and job.result records the submission error together with a
\* placeholder transaction identifier.
C5_ResultRecordsChainError ==
    \A r \in Rounds :
        task[r].chainWrite # Null /\ task[r].chainWrite.chainError # "undefined" =>
            /\ job[r].status = "completed"
            /\ job[r].result.txHash = "mockTxHash"
            /\ "chainError" \in DOMAIN job[r].result
            /\ job[r].result.chainError = task[r].chainWrite.chainError

\* C6: at every instant a poll can observe a round record, respondedSoFar +
\* offlineSoFar <= totalNodes (21), with equality from the moment Phase 1 has
\* processed the last node.
C6_CountersBounded ==
    \A id \in Ids :
        Snapshot(id).code = 200 =>
            LET seen == Snapshot(id) IN
            /\ seen.totalNodes = 21
            /\ seen.respondedSoFar + seen.offlineSoFar <= seen.totalNodes
            /\ Phase1Done(bftJobs[id]) =>
                  seen.respondedSoFar + seen.offlineSoFar = seen.totalNodes

\* A poll sees a round past Phase 1 with nodes of both outcomes.
C6_Witness ==
    \E id \in Ids :
        /\ Snapshot(id).code = 200 /\ Phase1Done(bftJobs[id])
        /\ Snapshot(id).respondedSoFar > 0 /\ Snapshot(id).offlineSoFar > 0

\* C7: no poll observes a partially updated record: the length of nodes
\* equals respondedSoFar + offlineSoFar, respondedSoFar is the number of
\* entries with status ok and offlineSoFar the number with status offline.
C7_PollSeesConsistentRecord ==
    \A id \in Ids :
        Snapshot(id).code = 200 =>
            LET seen == Snapshot(id) IN
            /\ Len(seen.nodes) = seen.respondedSoFar + seen.offlineSoFar
            /\ seen.respondedSoFar = CountStatus(seen.nodes, "ok")
            /\ seen.offlineSoFar = CountStatus(seen.nodes, "offline")

\* A poll in the middle of Phase 1, nodes of both outcomes recorded.
C7_Witness ==
    \E id \in Ids :
        /\ Snapshot(id).code = 200 /\ Snapshot(id).status = "running"
        /\ Snapshot(id).phase = "observation"
        /\ Len(Snapshot(id).nodes) < NODE_COUNT
        /\ Snapshot(id).respondedSoFar > 0 /\ Snapshot(id).offlineSoFar > 0

\* A poll answered with a terminal status.
Terminal(seen) == seen.code = 200 /\ seen.status \in {"completed", "failed"}

\* C8: once a poll of an id has returned status completed or failed, every
\* later poll of the id returns the identical snapshot, whatever other
\* requests are processed in between.
C8_TerminalSnapshotStable ==
    [][\A id \in Ids : Terminal(Snapshot(id)) => Snapshot(id)' = Snapshot(id)]_vars

C10_OwnRoundId ==
    \A r \in Reqs :
        req[r].pc = "done" /\ req[r].resp.status = "pending" =>
            /\ bftJobs[req[r].resp.requestId] = r
            /\ \A q \in Reqs \ {r} :
                  req[q].pc = "done" /\ req[q].resp.status = "pending" =>
                      req[q].resp.requestId # req[r].resp.requestId

\* C11: a malformed score (outside 0..100) is answered with an error by the
\* router: it is not classified, so it causes no direct ledger write and no
\* round creation.
C11_MalformedScoreIsError ==
    \A r \in Reqs :
        /\ req[r].analysis # Null /\ req[r].analysis.resolvable
        /\ req[r].analysis.riskScore \notin 0..100
        => /\ chainCalls[r] = 0
           /\ job[r] = Null
           /\ req[r].pc = "done" => req[r].resp.code = 400

\* C12: onHTTPTrigger adds a record to the job store if and only if the
\* disposition is consensus-required, and then answers pending with the
\* requestId under which the record is stored; on every other path the job
\* store and its records are left unchanged.
C12_StoreChangesIffPending ==
    [][\A r \in Reqs :
          req[r].pc = "arrived" /\ req'[r].pc # "arrived" =>
            LET pending == req'[r].pc = "done" /\ req'[r].resp.status = "pending"
                consensus == /\ req'[r].analysis # Null
                             /\ req'[r].analysis.resolvable
                             /\ 30 < req'[r].analysis.riskScore
                             /\ req'[r].analysis.riskScore <= 70
            IN  /\ pending = consensus
                /\ IF pending
                   THEN /\ job[r] = Null /\ job'[r] # Null
                        /\ bftJobs'[req'[r].resp.requestId] = r
                        /\ \A id \in Ids \ {req'[r].resp.requestId} :
                              bftJobs'[id] = bftJobs[id]
                        /\ \A q \in Reqs \ {r} : job'[q] = job[q]
                   ELSE bftJobs' = bftJobs /\ job' = job]_vars

\* A pending answer whose requestId names the stored record of the request.
C12_Witness ==
    \E r \in Reqs :
        /\ req[r].pc = "done" /\ req[r].resp.status = "pending"
        /\ bftJobs[req[r].resp.requestId] = r /\ job[r].status = "running"

\* C13: at the moment the pending response for a round is returned, the
\* round's record exists with status running, phase observation, an empty
\* nodes sequence and respondedSoFar = offlineSoFar = 0; no node has been
\* processed yet.
C13_PendingBeforeFirstNode ==
    [][\A r \in Reqs :
          /\ req[r].pc = "arrived" /\ req'[r].pc = "done"
          /\ req'[r].resp.status = "pending"
          => /\ bftJobs'[req'[r].resp.requestId] = r
             /\ job'[r].status = "running"
             /\ job'[r].phase = "observation"
             /\ job'[r].nodes = <<>>
             /\ job'[r].respondedSoFar = 0
             /\ job'[r].offlineSoFar = 0
             /\ task'[r].pc = "node" /\ task'[r].i = 0]_vars

\* The first NodeOutcome of a round is recorded, its request answered pending.
C13_Witness ==
    \E r \in Reqs :
        /\ req[r].pc = "done" /\ req[r].resp.status = "pending"
        /\ job[r] # Null /\ Len(job[r].nodes) = 1 /\ task[r].i = 1

\* C14: polling an id that is not in the job store is answered not-found
\* (HTTP 404 with the id in the error body) instead of raising, and changes
\* neither the job store nor any round record.
C14_UnknownIdNotFound ==
    \A id \in Ids \cup {UnknownId} :
        (id \notin Ids \/ bftJobs[id] = 0) =>
            /\ Snapshot(id) = [code |-> 404, requestId |-> id]
            /\ ENABLED Poll(id)
            /\ ~ENABLED (Poll(id) /\ (bftJobs' # bftJobs \/ job' # job))

\* An id is polled that no request was given while a round is in the store.
C14_Witness ==
    /\ Snapshot(UnknownId).code = 404
    /\ \E id \in Ids : Snapshot(id).code = 200 /\ Len(Snapshot(id).nodes) > 0

\* C15: two rounds given the same payload have the same reportHash (when
\* set), whatever network condition each sampled and whichever nodes went
\* offline in each.
C15_SamePayloadSameHash ==
    \A r \in Rounds, q \in Rounds :
        /\ task[r].payloadObj = task[q].payloadObj
        /\ job[r].reportHash # Null /\ job[q].reportHash # Null
        => job[r].reportHash = job[q].reportHash

\* Two rounds of one payload under different conditions, with different
\* offline nodes, both hashed.
C15_Witness ==
    \E r \in Rounds, q \in Rounds :
        /\ r # q /\ task[r].payloadObj = task[q].payloadObj
        /\ job[r].networkCondition # job[q].networkCondition
        /\ job[r].offlineSoFar # job[q].offlineSoFar
        /\ job[r].reportHash # Null /\ job[q].reportHash # Null

\* C16: deriveReportHash is independent of field insertion order: two
\* payloads holding the same set of (field, value) pairs, inserted in any two
\* orders, produce the same digest.
C16_HashOrderIndependent ==
    probe # Null /\ probe.hashA # Null => probe.hashA = probe.hashB

\* Two objects of MaxFields fields in different insertion orders were hashed.
C16_Witness ==
    /\ probe # Null /\ probe.hashA # Null
    /\ Len(probe.a) = MaxFields /\ probe.a # probe.b
    /\ probe.a[1] = probe.b[MaxFields]

\* Position of a phase along observation -> signing -> transmitting.
PhaseRank(phase) ==
    CASE phase = "observation" -> 1
      [] phase = "signing" -> 2
      [] phase = "transmitting" -> 3

\* C17: within a round the phase only moves forward along observation ->
\* signing -> transmitting, and status changes at most once, from running to
\* completed or to failed, never again.
C17_PhaseAndStatusMonotonic ==
    [][\A r \in Reqs :
          job[r] # Null =>
            /\ PhaseRank(job'[r].phase) >= PhaseRank(job[r].phase)
            /\ job'[r].status # job[r].status =>
                  /\ job[r].status = "running"
                  /\ job'[r].status \in {"completed", "failed"}]_vars

\* C18: the nodes sequence of a round is a prefix of the registry order
\* (nodes[k].index = k for every position k, counted from 0), of length at
\* most 21; entries already appended are never changed, reordered or removed.
C18_NodesPrefixOfRegistry ==
    [][\A r \in Reqs :
          job'[r] # Null =>
            /\ Len(job'[r].nodes) <= 21
            /\ \A k \in 1..Len(job'[r].nodes) :
                  /\ job'[r].nodes[k].index = k - 1
                  /\ job'[r].nodes[k].operator = DON_NODES[k - 1].operator
            /\ job[r] # Null =>
                  /\ Len(job[r].nodes) <= Len(job'[r].nodes)
                  /\ SubSeq(job'[r].nodes, 1, Len(job[r].nodes)) = job[r].nodes]_vars

\* All 21 outcomes recorded, the first node offline and the last one ok.
C18_Witness ==
    \E r \in Rounds :
        /\ Len(job[r].nodes) = NODE_COUNT
        /\ job[r].nodes[1].status = "offline"
        /\ job[r].nodes[NODE_COUNT].status = "ok"
        /\ job[r].nodes[NODE_COUNT].index = NODE_COUNT - 1

\* C19: in every round, at every instant, offlineSoFar does not exceed the
\* maxOffline of the round's sampled condition (2 for NORMAL, 7 for DEGRADED,
\* 11 for NETWORK_PARTITION).
C19_OfflineWithinCap ==
    \A r \in Rounds :
        /\ job[r].networkCondition \in {"NORMAL", "DEGRADED", "NETWORK_PARTITION"}
        /\ job[r].offlineSoFar = CountStatus(job[r].nodes, "offline")
        /\ job[r].networkCondition = "NORMAL" => job[r].offlineSoFar <= 2
        /\ job[r].networkCondition = "DEGRADED" => job[r].offlineSoFar <= 7
        /\ job[r].networkCondition = "NETWORK_PARTITION" => job[r].offlineSoFar <= 11

\* A round at its cap: the nodes after the last offline one all responded.
C19_Witness ==
    \E r \in Rounds :
        /\ job[r].networkCondition = "DEGRADED" /\ job[r].offlineSoFar = 7
        /\ Len(job[r].nodes) = NODE_COUNT
        /\ job[r].nodes[7].status = "offline" /\ job[r].nodes[8].status = "ok"

\* The registry indices of the nodes a round recorded with status ok.
OkIndices(r) ==
    {job[r].nodes[k].index : k \in {j \in 1..Len(job[r].nodes) :
                                       job[r].nodes[j].status = "ok"}}

C21_QuorumWithinTotal ==
    [][\A r \in Reqs :
          job'[r] # Null =>
            /\ job'[r].quorumRequired = 13 /\ job'[r].totalNodes = 21
            /\ job'[r].quorumRequired <= job'[r].totalNodes
            /\ job[r] # Null =>
                  /\ job'[r].quorumRequired = job[r].quorumRequired
                  /\ job'[r].totalNodes = job[r].totalNodes]_vars

\* A round that ran to its end after eleven nodes went offline.
C21_Witness ==
    \E r \in Rounds :
        /\ job[r].status = "failed" /\ job[r].offlineSoFar = 11
        /\ job[r].totalNodes = 21 /\ job[r].quorumRequired = 13

\* C22: a trigger request that fails validation (missing creator or
\* inputType, unknown inputType, or missing question/tweetText for its
\* inputType) is answered with an error before any scoring call, before any
\* round is created and before any ledger write; the job store is unchanged.
C22_InvalidInputRejected ==
    [][\A r \in Reqs :
          /\ req[r].pc = "arrived" /\ req'[r].pc # "arrived"
          /\ LET input == probe'.input IN
              \/ input.creator = "absent"
              \/ input.inputType \notin {"manual", "social_post"}
              \/ input.inputType = "manual" /\ ~input.question
              \/ input.inputType = "social_post" /\ ~input.tweetText
          => /\ req'[r].pc = "done"
             /\ req'[r].resp.code = 400 /\ req'[r].resp.status = "error"
             /\ ~req'[r].scored /\ req'[r].analysis = Null
             /\ bftJobs' = bftJobs /\ job' = job /\ task' = task
             /\ job'[r] = Null
             /\ chainCalls' = chainCalls /\ chainCalls'[r] = 0]_vars

\* A request with a creator and a question but no tweetText for its
\* social_post type was answered with the error.
C22_Witness ==
    /\ probe # Null
    /\ probe.input.inputType = "social_post" /\ ~probe.input.tweetText
    /\ probe.input.creator = "0xC1"
    /\ req[1].pc = "done" /\ req[1].resp = Error400 /\ ~req[1].scored

\* C23: in a round that fails quorum, the failed result describes the failure
\* with the responded count, the offline count, quorumRequired and the sampled
\* network condition, each equal to the round's final respondedSoFar,
\* offlineSoFar, quorumRequired and networkCondition, and its reason string
\* embeds all of them.
C23_FailedResultDescribesFailure ==
    \A r \in Rounds :
        Phase1Done(r) /\ job[r].respondedSoFar < job[r].quorumRequired =>
            LET result == job[r].result IN
            /\ job[r].status = "failed"
            /\ result.respondedNodes = job[r].respondedSoFar
            /\ result.offlineNodes = job[r].offlineSoFar
            /\ result.quorumRequired = job[r].quorumRequired
            /\ result.networkCondition = job[r].networkCondition
            /\ result.reasonResponded = job[r].respondedSoFar
            /\ result.reasonQuorum = job[r].quorumRequired
            /\ "reasonOffline" \in DOMAIN result
            /\ result.reasonOffline = job[r].offlineSoFar
            /\ "reasonCondition" \in DOMAIN result
            /\ result.reasonCondition = job[r].networkCondition

\* C24: the number of offline nodes at the end of Phase 1 lies in the band
\* documented for the round's network condition: 0 to 2 for NORMAL, 5 to 7
\* for DEGRADED (so 14 to 16 nodes respond and quorum is met), and 9 to 11
\* for NETWORK_PARTITION (so fewer than 13 respond and quorum fails).
C24_OfflineWithinBand ==
    \A r \in Rounds :
        Phase1Done(r) =>
            /\ job[r].networkCondition = "NORMAL" =>
                  job[r].offlineSoFar \in 0..2
            /\ job[r].networkCondition = "DEGRADED" =>
                  /\ job[r].offlineSoFar \in 5..7
                  /\ job[r].respondedSoFar \in 14..16
            /\ job[r].networkCondition = "NETWORK_PARTITION" =>
                  /\ job[r].offlineSoFar \in 9..11
                  /\ job[r].respondedSoFar < 13
                  /\ job[r].status = "failed"

\* C25: after Phase 1 completes, respondedSoFar >= 21 - maxOfflineCount of the
\* sampled condition; every NORMAL round has respondedSoFar >= 19 and every
\* DEGRADED round respondedSoFar >= 14, both reach quorum, and a quorum
\* failure occurs only in a round whose condition is NETWORK_PARTITION.
C25_RespondedAtLeast ==
    \A r \in Rounds :
        Phase1Done(r) =>
            /\ job[r].networkCondition = "NORMAL" =>
                  job[r].respondedSoFar >= 19 /\ job[r].phase # "observation"
            /\ job[r].networkCondition = "DEGRADED" =>
                  job[r].respondedSoFar >= 14 /\ job[r].phase # "observation"
            /\ job[r].networkCondition = "NETWORK_PARTITION" =>
                  job[r].respondedSoFar >= 10
            /\ job[r].respondedSoFar < job[r].quorumRequired =>
                  job[r].networkCondition = "NETWORK_PARTITION"

\* A DEGRADED round at its cap went on to signing; its first node responded.
C25_Witness ==
    \E r \in Rounds :
        /\ Phase1Done(r) /\ job[r].networkCondition = "DEGRADED"
        /\ job[r].respondedSoFar = 14 /\ job[r].phase = "signing"
        /\ job[r].nodes[1].status = "ok"

\* C26: in the signing phase the set of signing nodes equals the set of nodes
\* recorded with status ok in Phase 1: every ok node contributes exactly one
\* signature, no node recorded offline contributes any, signatures are in
\* increasing node order, and signingNodes = respondedNodes in the completed
\* result.
C26_SignersAreOkNodes ==
    \A r \in Rounds :
        task[r].reportHash # Null =>
            LET signatures == Signatures(task[r].observations, task[r].reportHash)
            IN  /\ {signatures[k].nodeIndex : k \in 1..Len(signatures)} = OkIndices(r)
                /\ Len(signatures) = Cardinality(OkIndices(r))
                /\ \A k \in 1..Len(signatures) :
                      job[r].nodes[signatures[k].nodeIndex + 1].status = "ok"
                /\ \A k \in 1..(Len(signatures) - 1) :
                      signatures[k].nodeIndex < signatures[k + 1].nodeIndex
                /\ job[r].status = "completed" =>
                      /\ job[r].result.signingNodes = job[r].result.respondedNodes
                      /\ job[r].result.signingNodes = job[r].respondedSoFar

\* A completed round in which fifteen nodes signed, the second node offline.
C26_Witness ==
    \E r \in Rounds :
        /\ job[r].status = "completed" /\ job[r].result.signingNodes = 15
        /\ job[r].nodes[2].status = "offline" /\ job[r].nodes[1].status = "ok"

\* C27: at every instant observable by a poll, a round's result is non-null
\* if and only if its status is completed or failed; result is assigned
\* exactly once and never reassigned.
C27_ResultSetOnce ==
    [][\A r \in Reqs :
          job'[r] # Null =>
            /\ (job'[r].result # Null) = (job'[r].status \in {"completed", "failed"})
            /\ job[r] # Null /\ job[r].result # Null =>
                  job'[r].result = job[r].result]_vars

\* C28: a round's networkCondition is assigned once, before the first
\* NodeOutcome is appended and before the pending response is returned (no
\* poll observes it as null), and never changes afterwards; the maxOffline
\* applied to every node of the round is that of this one condition.
C28_ConditionFixedAtStart ==
    [][\A r \in Reqs :
          job'[r] # Null =>
            /\ job'[r].networkCondition \in {"NORMAL", "DEGRADED", "NETWORK_PARTITION"}
            /\ task'[r].networkCondition = job'[r].networkCondition
            /\ job[r] = Null =>
                  job'[r].nodes = <<>> /\ req'[r].resp.status = "pending"
            /\ job[r] # Null =>
                  /\ job'[r].networkCondition = job[r].networkCondition
                  /\ job'[r].offlineSoFar > job[r].offlineSoFar =>
                        job[r].offlineSoFar <
                            (CASE job[r].networkCondition = "NORMAL" -> 2
                               [] job[r].networkCondition = "DEGRADED" -> 7
                               [] job[r].networkCondition = "NETWORK_PARTITION" -> 11)
                  /\ /\ job'[r].offlineSoFar > job[r].offlineSoFar
                     /\ job[r].networkCondition = "NETWORK_PARTITION"
                     => job'[r].nodes[Len(job'[r].nodes)].reason = "NETWORK_PARTITION"]_vars

\* A poll sees a DEGRADED round before its first node was processed.
C28_Witness ==
    \E id \in Ids :
        /\ Snapshot(id).code = 200 /\ Snapshot(id).nodes = <<>>
        /\ Snapshot(id).networkCondition = "DEGRADED"
        /\ req[bftJobs[id]].pc = "done"

\* C29: the Gateway is invoked at most once per round: no retry follows a
\* Gateway error, and no second submission happens after the round has
\* reached a terminal status.
C29_GatewayAtMostOnce ==
    [][\A r \in Reqs :
          /\ chainCalls'[r] <= 1
          /\ task'[r].pc = "gateway" /\ task[r].pc # "gateway" =>
                chainCalls[r] = 0 /\ task[r].chainWrite = Null
          /\ task[r].chainWrite # Null =>
                chainCalls'[r] = chainCalls[r] /\ task'[r].pc = task[r].pc
          /\ /\ job[r] # Null /\ job[r].status \in {"completed", "failed"}
             /\ chainCalls[r] > 0
             => chainCalls'[r] = chainCalls[r] /\ task'[r].pc # "gateway"]_vars

\* A round completed after its one submission was rejected.
C29_Witness ==
    \E r \in Rounds :
        /\ job[r].status = "completed" /\ chainCalls[r] = 1
        /\ task[r].chainWrite # Null /\ task[r].chainWrite.chainError = "shortMessage"

\* C30: for two rounds with distinct ids running concurrently, every step of
\* one round's background task (and of its error handler) leaves the other
\* round's record unchanged, under every interleaving of their suspension
\* points.
C30_RoundsIsolated ==
    [][\A r \in Reqs, q \in Reqs :
          /\ r # q /\ job[r] # Null /\ job[q] # Null
          /\ req[r].id # req[q].id
          /\ task'[r] # task[r]
          => job'[q] = job[q] /\ task'[q] = task[q]]_vars

\* The error handler of one round has run while the other round, under a
\* different id, is in the middle of Phase 1.
C30_Witness ==
    \E r \in Rounds, q \in Rounds :
        /\ req[r].id # req[q].id
        /\ task[r].pc = "thrown" /\ job[r].status = "failed"
        /\ job[q].status = "running" /\ Len(job[q].nodes) \in 1..20
        /\ task[q].pc = "node"

\* C31: a status poll is read-only: for any id, known or unknown, handling
\* GET /bft-status/:requestId is always possible, changes no field of any
\* round record and adds or removes no key of the job store.
C31_PollReadOnly ==
    \A id \in Ids \cup {UnknownId} :
        /\ ENABLED Poll(id)
        /\ ~ENABLED (Poll(id) /\ (job' # job \/ bftJobs' # bftJobs))

\* A poll of a known id finds a completed round whose report went on chain.
C31_Witness ==
    \E id \in Ids :
        /\ Snapshot(id).code = 200 /\ Snapshot(id).status = "completed"
        /\ Snapshot(id).result.txHash = "txHash"

\* C32: in every observable state of a round: if phase is signing or
\* transmitting then nodes has length 21 and respondedSoFar >= 13; if
\* reportHash is non-null then phase is signing or transmitting; and if status
\* is completed then phase is transmitting and reportHash is non-null.
C32_PhaseImpliesProgress ==
    \A id \in Ids :
        Snapshot(id).code = 200 =>
            LET seen == Snapshot(id) IN
            /\ seen.phase \in {"signing", "transmitting"} =>
                  Len(seen.nodes) = 21 /\ seen.respondedSoFar >= 13
            /\ seen.reportHash # Null =>
                  seen.phase \in {"signing", "transmitting"}
            /\ seen.status = "completed" =>
                  seen.phase = "transmitting" /\ seen.reportHash # Null

\* A poll sees a round in signing with exactly the quorum, no hash yet.
C32_Witness ==
    \E id \in Ids :
        /\ Snapshot(id).code = 200 /\ Snapshot(id).phase = "signing"
        /\ Snapshot(id).respondedSoFar = QUORUM /\ Snapshot(id).reportHash = Null

\* C33: every round whose status is failed has reportHash null, phase
\* observation and respondedSoFar < quorumRequired: a round becomes failed
\* only at the quorum check that ends Phase 1.
C33_FailedOnlyAtQuorumCheck ==
    \A r \in Rounds :
        job[r].status = "failed" =>
            /\ job[r].reportHash = Null
            /\ job[r].phase = "observation"
            /\ job[r].respondedSoFar < job[r].quorumRequired

\* C34: in every round, each NodeOutcome with status offline carries reason
\* NETWORK_PARTITION if the round's condition is NETWORK_PARTITION and TIMEOUT
\* otherwise, and no NodeOutcome with status ok carries a reason; all offline
\* entries of one round carry the same reason.
C34_OfflineReasonByCondition ==
    \A r \in Rounds :
        /\ \A k \in 1..Len(job[r].nodes) :
              LET outcome == job[r].nodes[k] IN
              /\ outcome.status \in {"ok", "offline"}
              /\ outcome.status = "ok" => outcome.reason = "undefined"
              /\ outcome.status = "offline" =>
                    /\ job[r].networkCondition = "NETWORK_PARTITION" =>
                          outcome.reason = "NETWORK_PARTITION"
                    /\ job[r].networkCondition # "NETWORK_PARTITION" =>
                          outcome.reason = "TIMEOUT"
        /\ \A k \in 1..Len(job[r].nodes), j \in 1..Len(job[r].nodes) :
              job[r].nodes[k].status = "offline" /\ job[r].nodes[j].status = "offline"
              => job[r].nodes[k].reason = job[r].nodes[j].reason

\* A partitioned round with offline entries on both sides of an ok entry.
C34_Witness ==
    \E r \in Rounds :
        /\ job[r].networkCondition = "NETWORK_PARTITION" /\ Len(job[r].nodes) >= 3
        /\ job[r].nodes[1].reason = "NETWORK_PARTITION"
        /\ job[r].nodes[2].status = "ok"
        /\ job[r].nodes[3].reason = "NETWORK_PARTITION"

\* C35: an analysis with resolvable = false is rejected whatever its
\* riskScore (scores <= 30 and scores in 31..70 included), by the simulator
\* and by workflow 1: no round is created and no ledger write is made.
C35_UnresolvableRejected ==
    /\ \A r \in Reqs :
          req[r].analysis # Null /\ ~req[r].analysis.resolvable =>
              /\ req[r].pc = "done"
              /\ req[r].resp.code = 200 /\ req[r].resp.status = "rejected"
              /\ job[r] = Null /\ chainCalls[r] = 0
              /\ \A id \in Ids : bftJobs[id] # r
    /\ cre1 # Null /\ cre1.analysis # Null /\ ~cre1.analysis.resolvable =>
          cre1.status = "rejected" /\ cre1.writeReports = 0

\* The simulator turned away an unresolvable analysis of score 10.
C35_Witness ==
    /\ req[1].pc = "done" /\ req[1].analysis # Null
    /\ ~req[1].analysis.resolvable /\ req[1].analysis.riskScore = 10
    /\ req[1].resp.status = "rejected"

\* The goOffline decisions of the round of r, read off its recorded outcomes.
DecisionsOf(r) ==
    [k \in 1..NODE_COUNT |-> job[r].nodes[k].status = "offline"]

\* C36: the two copies of the consensus logic agree: given the same payload,
\* the same sampled network condition and the same sequence of per-node
\* offline decisions, runBFTConsensus and runBFTBackground yield the same
\* quorumReached, respondedNodes, offlineNodes, reportHash and threshold
\* signature list, and the same submission outcome (txHash, onChain,
\* chainError).
C36_CopiesAgree ==
    \A r \in Rounds :
        task[r].pc = "done" =>
            LET write == IF task[r].chainWrite = Null THEN MockWrite
                         ELSE task[r].chainWrite
                sync == runBFTConsensus(task[r].payloadObj, job[r].networkCondition,
                                        DecisionsOf(r), write)
                result == job[r].result
            IN  /\ result.quorumReached = sync.consensus.quorumReached
                /\ result.respondedNodes = sync.consensus.respondedNodes
                /\ result.offlineNodes = sync.consensus.offlineNodes
                /\ result.networkCondition = sync.consensus.networkCondition
                /\ (job[r].status = "failed") = ("bftFailed" \in DOMAIN sync)
                /\ job[r].status = "completed" =>
                      /\ result.reportHash = sync.consensus.reportHash
                      /\ result.thresholdSigs = sync.consensus.thresholdSigs
                      /\ result.signingNodes = sync.consensus.signingNodes
                      /\ result.txHash = sync.txHash
                      /\ (result.basescan # "null") = sync.onChain
                      /\ sync.chainError =
                            IF "chainError" \in DOMAIN result
                            THEN result.chainError ELSE "undefined"

\* C37: in workflow 1 as deployed, a ledger write (submitCreateMarket)
\* happens if and only if the analysis is resolvable and riskScore <= 30; for
\* 30 < riskScore <= 70 the handler returns pending with no write, and for
\* riskScore > 70 it returns rejected with no write.
C37_Cre1WritesIffApproved ==
    cre1 # Null =>
        /\ cre1.analysis = Null => cre1.writeReports = 0 /\ cre1.status = "error"
        /\ cre1.analysis # Null =>
              LET score == cre1.analysis.riskScore
                  resolvable == cre1.analysis.resolvable
              IN  /\ (cre1.writeReports = 1) = (resolvable /\ score <= 30)
                  /\ cre1.writeReports \in {0, 1}
                  /\ resolvable /\ 30 < score /\ score <= 70 =>
                        cre1.status = "pending" /\ cre1.writeReports = 0
                  /\ resolvable /\ score > 70 =>
                        cre1.status = "rejected" /\ cre1.writeReports = 0

\* Workflow 1 answered pending, without a write, for the score just above
\* the approve threshold.
C37_Witness ==
    /\ cre1 # Null /\ cre1.analysis # Null /\ cre1.analysis.resolvable
    /\ cre1.analysis.riskScore = 31
    /\ cre1.status = "pending" /\ cre1.writeReports = 0

C40_CryptoPriceDeterministic ==
    /\ probe.out # Null /\ probe.price # Null /\ "outcome" \in DOMAIN probe.price =>
          /\ (probe.price.outcome = 1) = (probe.answer >= probe.resolution.targetValue)
          /\ (probe.price.outcome = 2) = (probe.answer < probe.resolution.targetValue)
          /\ probe.price.confidence = 100
          /\ probe.config.confidenceThreshold = 90 =>
                /\ probe.out.writes = 1
                /\ probe.writeOk =>
                      /\ probe.out.result.action = "resolved"
                      /\ probe.out.result.outcome = probe.price.outcome
                      /\ probe.out.result.confidence = 100
    /\ /\ probe.out # Null /\ probe.market.category = 0
       /\ probe.config.confidenceThreshold = 90
       => probe.out.result.action # "escalated"

\* An active CRYPTO_PRICE market whose price equals its target resolved YES.
C40_Witness ==
    /\ probe.out # Null /\ probe.market.category = 0 /\ probe.market.status = 0
    /\ probe.answer = probe.resolution.targetValue
    /\ probe.config.confidenceThreshold = 90
    /\ probe.out.result.action = "resolved" /\ probe.out.result.outcome = 1

====
